---- MODULE Spec2Model ----
(***************************************************************************)
(* save / load of examples/serialisation.ipynb: one file holding a JSON    *)
(* header line with the hyperparameters, then the serialised leaves of the *)
(* model.  Files are sequences of bytes (0..255), Python str values are    *)
(* sequences of code points, Python objects are tagged records.  An array  *)
(* element is one byte of the file.                                        *)
(***************************************************************************)
EXTENDS Integers, Sequences, FiniteSets, TLC

(* ---------------------------------------------------------------- bounds *)
MaxSize == 3
MaxWidth == 2
MaxDepth == 1

(* ------------------------------------------------------ Python objects   *)
PyNone == [t |-> "none"]
PyBool(b) == [t |-> "bool", v |-> b]
PyInt(n) == [t |-> "int", v |-> n]
PyFloat(lexeme) == [t |-> "float", v |-> lexeme]
PyStr(s) == [t |-> "str", v |-> s]
PyList(items) == [t |-> "list", v |-> items]
PyDict(pairs) == [t |-> "dict", v |-> pairs]
\* an object json has no encoding for (a set, a function, an array, ...)
PyObject == [t |-> "object"]

\* "\n", the terminator save appends to the header
NL == 10

\* the ASCII characters the json module reads and writes
Ch == [quote |-> 34, plus |-> 43, comma |-> 44, minus |-> 45, dot |-> 46,
       slash |-> 47, zero |-> 48, nine |-> 57, colon |-> 58, upE |-> 69,
       lbracket |-> 91, backslash |-> 92, rbracket |-> 93, b |-> 98,
       e |-> 101, f |-> 102, n |-> 110, r |-> 114, t |-> 116, u |-> 117,
       lbrace |-> 123, rbrace |-> 125, space |-> 32, tab |-> 9, cr |-> 13,
       bs |-> 8, ff |-> 12, tilde |-> 126]

S_true == <<116, 114, 117, 101>>
S_false == <<102, 97, 108, 115, 101>>
S_null == <<110, 117, 108, 108>>
S_size == <<115, 105, 122, 101>>
S_width == <<119, 105, 100, 116, 104>>
S_depth == <<100, 101, 112, 116, 104>>
S_use_tanh == <<117, 115, 101, 95, 116, 97, 110, 104>>
S_note == <<110, 111, 116, 101>>

(* -------------------------------------------------------- json.dumps     *)
Ok(s) == [ok |-> TRUE, s |-> s]
Fail == [ok |-> FALSE]

HexDigit(d) == IF d < 10 THEN 48 + d ELSE 87 + d

\* '\\u{0:04x}'
Hex4(c) ==
    <<Ch.backslash, Ch.u, HexDigit((c \div 4096) % 16), HexDigit((c \div 256) % 16),
      HexDigit((c \div 16) % 16), HexDigit(c % 16)>>

\* EscapeChar with only the quote and the backslash escaped
EscapeCharRaw(c) ==
    IF c = Ch.quote THEN <<Ch.backslash, Ch.quote>>
    ELSE IF c = Ch.backslash THEN <<Ch.backslash, Ch.backslash>>
    ELSE <<c>>

\* py_encode_basestring_ascii: one character of a str
EscapeChar(c) ==
    IF c = Ch.quote THEN <<Ch.backslash, Ch.quote>>
    ELSE IF c = Ch.backslash THEN <<Ch.backslash, Ch.backslash>>
    ELSE IF c = NL THEN <<Ch.backslash, Ch.n>>
    ELSE IF c = Ch.cr THEN <<Ch.backslash, Ch.r>>
    ELSE IF c = Ch.tab THEN <<Ch.backslash, Ch.t>>
    ELSE IF c = Ch.bs THEN <<Ch.backslash, Ch.b>>
    ELSE IF c = Ch.ff THEN <<Ch.backslash, Ch.f>>
    ELSE IF c >= Ch.space /\ c <= Ch.tilde THEN <<c>>
    ELSE IF c < 65536 THEN Hex4(c)
    ELSE Hex4(55296 + (((c - 65536) \div 1024) % 1024)) \o Hex4(56320 + ((c - 65536) % 1024))

RECURSIVE EscapeBody(_)
EscapeBody(s) ==
    IF s = <<>> THEN <<>> ELSE EscapeChar(Head(s)) \o EscapeBody(Tail(s))

EncodeStr(s) == <<Ch.quote>> \o EscapeBody(s) \o <<Ch.quote>>

RECURSIVE Digits(_)
Digits(n) ==
    IF n < 10 THEN <<48 + n>> ELSE Digits(n \div 10) \o <<48 + (n % 10)>>

\* int.__repr__
IntRepr(n) == IF n < 0 THEN <<Ch.minus>> \o Digits(0 - n) ELSE Digits(n)

\* the text of a dict key: str as is, int / bool / None converted, else TypeError
KeyText(k) ==
    CASE k.t = "str" -> Ok(k.v)
      [] k.t = "int" -> Ok(IntRepr(k.v))
      [] k.t = "bool" -> Ok(IF k.v THEN S_true ELSE S_false)
      [] k.t = "none" -> Ok(S_null)
      [] k.t = "float" -> Ok(k.v)
      [] OTHER -> Fail

RECURSIVE dumps_value(_), dumps_items(_, _), dumps_pairs(_, _)
\* JSONEncoder.iterencode with the defaults of json.dumps
dumps_value(o) ==
    CASE o.t = "none" -> Ok(S_null)
      [] o.t = "bool" -> Ok(IF o.v THEN S_true ELSE S_false)
      [] o.t = "int" -> Ok(IntRepr(o.v))
      [] o.t = "float" -> Ok(o.v)
      [] o.t = "str" -> Ok(EncodeStr(o.v))
      [] o.t = "list" ->
            IF o.v = <<>> THEN Ok(<<Ch.lbracket, Ch.rbracket>>)
            ELSE LET r == dumps_items(o.v, TRUE)
                 IN  IF r.ok THEN Ok(<<Ch.lbracket>> \o r.s \o <<Ch.rbracket>>) ELSE Fail
      [] o.t = "dict" ->
            IF o.v = <<>> THEN Ok(<<Ch.lbrace, Ch.rbrace>>)
            ELSE LET r == dumps_pairs(o.v, TRUE)
                 IN  IF r.ok THEN Ok(<<Ch.lbrace>> \o r.s \o <<Ch.rbrace>>) ELSE Fail
      [] OTHER -> Fail

dumps_items(items, first) ==
    IF items = <<>> THEN Ok(<<>>)
    ELSE LET h == dumps_value(Head(items))
             rest == dumps_items(Tail(items), FALSE)
             sep == IF first THEN <<>> ELSE <<Ch.comma, Ch.space>>
         IN  IF h.ok /\ rest.ok THEN Ok(sep \o h.s \o rest.s) ELSE Fail

dumps_pairs(pairs, first) ==
    IF pairs = <<>> THEN Ok(<<>>)
    ELSE LET k == KeyText(Head(pairs)[1])
             h == dumps_value(Head(pairs)[2])
             rest == dumps_pairs(Tail(pairs), FALSE)
             sep == IF first THEN <<>> ELSE <<Ch.comma, Ch.space>>
         IN  IF k.ok /\ h.ok /\ rest.ok
             THEN Ok(sep \o EncodeStr(k.s) \o <<Ch.colon, Ch.space>> \o h.s \o rest.s)
             ELSE Fail

\* json.dumps(params): the text, or TypeError
json_dumps(o) == dumps_value(o)

(* ------------------------------------------- str.encode / bytes.decode   *)
RECURSIVE Concat(_)
Concat(seqs) == IF seqs = <<>> THEN <<>> ELSE Head(seqs) \o Concat(Tail(seqs))

\* the UTF-8 bytes of one code point (surrogates have none: UnicodeEncodeError)
EncodeChar(c) ==
    IF c < 128 THEN <<c>>
    ELSE IF c < 2048 THEN <<192 + (c \div 64), 128 + (c % 64)>>
    ELSE IF c < 65536 THEN <<224 + (c \div 4096), 128 + ((c \div 64) % 64), 128 + (c % 64)>>
    ELSE <<240 + (c \div 262144), 128 + ((c \div 4096) % 64), 128 + ((c \div 64) % 64),
           128 + (c % 64)>>

At(s, i) == IF i >= 1 /\ i <= Len(s) THEN s[i] ELSE -1

IsSurrogate(c) == c >= 55296 /\ c <= 57343

\* str.encode(): UTF-8, UnicodeEncodeError on a lone surrogate
str_encode(s) ==
    IF \E k \in 1..Len(s) : IsSurrogate(s[k]) THEN Fail
    ELSE IF \A k \in 1..Len(s) : s[k] < 128 THEN Ok(s)
    ELSE Ok(Concat([k \in 1..Len(s) |-> EncodeChar(s[k])]))

IsCont(b) == b >= 128 /\ b <= 191

\* the code point that starts at byte i and the number of bytes it takes (0: ill-formed)
DecodeChar(bs, i) ==
    LET b0 == At(bs, i)
        b1 == At(bs, i + 1)
        b2 == At(bs, i + 2)
        b3 == At(bs, i + 3)
    IN  IF b0 < 128 THEN [n |-> 1, c |-> b0]
        ELSE IF b0 >= 194 /\ b0 <= 223 /\ IsCont(b1)
             THEN [n |-> 2, c |-> (b0 - 192) * 64 + (b1 - 128)]
        ELSE IF b0 >= 224 /\ b0 <= 239 /\ IsCont(b1) /\ IsCont(b2)
                /\ (b0 = 224 => b1 >= 160) /\ (b0 = 237 => b1 <= 159)
             THEN [n |-> 3, c |-> (b0 - 224) * 4096 + (b1 - 128) * 64 + (b2 - 128)]
        ELSE IF b0 >= 240 /\ b0 <= 244 /\ IsCont(b1) /\ IsCont(b2) /\ IsCont(b3)
                /\ (b0 = 240 => b1 >= 144) /\ (b0 = 244 => b1 <= 143)
             THEN [n |-> 4, c |-> (b0 - 240) * 262144 + (b1 - 128) * 4096
                                  + (b2 - 128) * 64 + (b3 - 128)]
        ELSE [n |-> 0, c |-> -1]

RECURSIVE bytes_decode_from(_, _, _)
bytes_decode_from(bs, i, acc) ==
    IF i > Len(bs) THEN Ok(acc)
    ELSE IF DecodeChar(bs, i).n = 0 THEN Fail
    ELSE bytes_decode_from(bs, i + DecodeChar(bs, i).n, Append(acc, DecodeChar(bs, i).c))

\* bytes.decode(): strict UTF-8, UnicodeDecodeError on an ill-formed sequence
bytes_decode(bs) ==
    IF \A k \in 1..Len(bs) : bs[k] < 128 THEN Ok(bs) ELSE bytes_decode_from(bs, 1, <<>>)

(* -------------------------------------------------------- json.loads     *)
PFail == [ok |-> FALSE]
POk(v, i) == [ok |-> TRUE, v |-> v, i |-> i]

IsWs(c) == c = Ch.space \/ c = Ch.tab \/ c = NL \/ c = Ch.cr
IsDigit(c) == c >= Ch.zero /\ c <= Ch.nine

RECURSIVE SkipWs(_, _)
SkipWs(s, i) == IF IsWs(At(s, i)) THEN SkipWs(s, i + 1) ELSE i

Match(s, i, lit) ==
    i + Len(lit) - 1 <= Len(s) /\ SubSeq(s, i, i + Len(lit) - 1) = lit

HexVal(c) ==
    IF IsDigit(c) THEN c - 48
    ELSE IF c >= 97 /\ c <= 102 THEN c - 87
    ELSE IF c >= 65 /\ c <= 70 THEN c - 55
    ELSE -1

\* _decode_uXXXX: the four hex digits at i, or -1
HexVal4(s, i) ==
    LET h == [k \in 0..3 |-> HexVal(At(s, i + k))]
    IN  IF \E k \in 0..3 : h[k] = -1 THEN -1
        ELSE h[0] * 4096 + h[1] * 256 + h[2] * 16 + h[3]

Unescape(c) ==
    IF c = Ch.quote \/ c = Ch.backslash \/ c = Ch.slash THEN c
    ELSE IF c = Ch.b THEN Ch.bs
    ELSE IF c = Ch.f THEN Ch.ff
    ELSE IF c = Ch.n THEN NL
    ELSE IF c = Ch.r THEN Ch.cr
    ELSE IF c = Ch.t THEN Ch.tab
    ELSE -1

RECURSIVE scanstring(_, _, _)
\* scanstring(s, end, strict=True): i is the index after the opening quote
scanstring(s, i, acc) ==
    LET c == At(s, i)
        esc == At(s, i + 1)
    IN  IF c = -1 THEN PFail
        ELSE IF c = Ch.quote THEN POk(acc, i + 1)
        ELSE IF c < 32 THEN PFail
        ELSE IF c # Ch.backslash THEN scanstring(s, i + 1, Append(acc, c))
        ELSE IF esc = Ch.u
             THEN LET uni == HexVal4(s, i + 2)
                      uni2 == HexVal4(s, i + 8)
                  IN  IF uni = -1 THEN PFail
                      ELSE IF uni >= 55296 /\ uni <= 56319
                              /\ At(s, i + 6) = Ch.backslash /\ At(s, i + 7) = Ch.u
                           THEN IF uni2 = -1 THEN PFail
                                ELSE IF uni2 >= 56320 /\ uni2 <= 57343
                                     THEN scanstring(s, i + 12,
                                              Append(acc, 65536 + (uni - 55296) * 1024
                                                          + (uni2 - 56320)))
                                     ELSE scanstring(s, i + 6, Append(acc, uni))
                           ELSE scanstring(s, i + 6, Append(acc, uni))
        ELSE IF Unescape(esc) = -1 THEN PFail
        ELSE scanstring(s, i + 2, Append(acc, Unescape(esc)))

RECURSIVE ScanDigits(_, _)
ScanDigits(s, i) == IF IsDigit(At(s, i)) THEN ScanDigits(s, i + 1) ELSE i

RECURSIVE IntOfDigits(_, _, _)
IntOfDigits(s, i, j) ==
    IF j < i THEN 0 ELSE IntOfDigits(s, i, j - 1) * 10 + (s[j] - 48)

\* NUMBER_RE.match(s, idx): (-?(?:0|[1-9]\d*))(\.\d+)?([eE][-+]?\d+)?
match_number(s, i) ==
    LET j0 == IF At(s, i) = Ch.minus THEN i + 1 ELSE i
        intEnd == IF At(s, j0) = Ch.zero THEN j0 + 1
                  ELSE IF IsDigit(At(s, j0)) THEN ScanDigits(s, j0)
                  ELSE -1
        fracEnd == IF At(s, intEnd) = Ch.dot /\ IsDigit(At(s, intEnd + 1))
                   THEN ScanDigits(s, intEnd + 1) ELSE intEnd
        k == IF At(s, fracEnd + 1) = Ch.plus \/ At(s, fracEnd + 1) = Ch.minus
             THEN fracEnd + 2 ELSE fracEnd + 1
        expEnd == IF (At(s, fracEnd) = Ch.e \/ At(s, fracEnd) = Ch.upE) /\ IsDigit(At(s, k))
                  THEN ScanDigits(s, k) ELSE fracEnd
        mag == IntOfDigits(s, j0, intEnd - 1)
    IN  IF intEnd = -1 THEN PFail
        ELSE IF expEnd = intEnd THEN POk(PyInt(IF j0 = i THEN mag ELSE 0 - mag), intEnd)
        ELSE POk(PyFloat(SubSeq(s, i, expEnd - 1)), expEnd)

S_NaN == <<78, 97, 78>>
S_Infinity == <<73, 110, 102, 105, 110, 105, 116, 121>>

RECURSIVE SetItem(_, _, _)
\* d[key] = value on the insertion-ordered pairs of a dict
SetItem(pairs, key, value) ==
    IF pairs = <<>> THEN <<<<key, value>>>>
    ELSE IF Head(pairs)[1].v = key.v THEN <<<<key, value>>>> \o Tail(pairs)
    ELSE <<Head(pairs)>> \o SetItem(Tail(pairs), key, value)

\* The decoder as a machine: scan_once, JSONObject and JSONArray call each other;
\* here the calls in progress are the frames of st.stack.
\*   mode "value": scan_once is called at st.i
\*   mode "key":   JSONObject is at the opening quote of a key
\*   mode "after": a value, st.val, was returned and st.i is the index after it
PState(mode, i, val, stack) == [mode |-> mode, i |-> i, val |-> val, stack |-> stack]
PError == [mode |-> "error", i |-> 0, val |-> PyNone, stack |-> <<>>]
ObjFrame(pairs, key) == [kind |-> "object", pairs |-> pairs, key |-> key, items |-> <<>>]
ArrFrame(items) == [kind |-> "array", pairs |-> <<>>, key |-> <<>>, items |-> items]

\* scanner.py scan_once: the value that starts at st.i
scan_once(s, st) ==
    LET i == SkipWs(s, st.i)
        c == At(s, i)
        j == SkipWs(s, i + 1)
        str == scanstring(s, i + 1, <<>>)
        num == match_number(s, i)
        Return(v, k) == PState("after", k, v, st.stack)
    IN  IF c = Ch.quote THEN (IF str.ok THEN Return(PyStr(str.v), str.i) ELSE PError)
        ELSE IF c = Ch.lbrace
        THEN IF At(s, j) = Ch.rbrace THEN Return(PyDict(<<>>), j + 1)
             ELSE IF At(s, j) # Ch.quote THEN PError
             ELSE PState("key", j, PyNone, <<ObjFrame(<<>>, <<>>)>> \o st.stack)
        ELSE IF c = Ch.lbracket
        THEN IF At(s, j) = Ch.rbracket THEN Return(PyList(<<>>), j + 1)
             ELSE PState("value", j, PyNone, <<ArrFrame(<<>>)>> \o st.stack)
        ELSE IF c = Ch.n /\ Match(s, i, S_null) THEN Return(PyNone, i + 4)
        ELSE IF c = Ch.t /\ Match(s, i, S_true) THEN Return(PyBool(TRUE), i + 4)
        ELSE IF c = Ch.f /\ Match(s, i, S_false) THEN Return(PyBool(FALSE), i + 5)
        ELSE IF num.ok THEN Return(num.v, num.i)
        ELSE IF Match(s, i, S_NaN) THEN Return(PyFloat(S_NaN), i + 3)
        ELSE IF Match(s, i, S_Infinity) THEN Return(PyFloat(S_Infinity), i + 8)
        ELSE IF c = Ch.minus /\ Match(s, i + 1, S_Infinity)
             THEN Return(PyFloat(<<Ch.minus>> \o S_Infinity), i + 9)
        ELSE PError

\* decoder.py JSONObject: the key at st.i and the colon after it
JSONObjectKey(s, st) ==
    LET k == scanstring(s, st.i + 1, <<>>)
        colon == SkipWs(s, k.i)
        top == Head(st.stack)
    IN  IF ~k.ok THEN PError
        ELSE IF At(s, colon) # Ch.colon THEN PError
        ELSE PState("value", colon + 1, PyNone,
                    <<ObjFrame(top.pairs, k.v)>> \o Tail(st.stack))

\* decoder.py JSONObject: what follows the value of a pair
JSONObjectNext(s, st) ==
    LET top == Head(st.stack)
        sofar == SetItem(top.pairs, PyStr(top.key), st.val)
        after == SkipWs(s, st.i)
        next == SkipWs(s, after + 1)
    IN  IF At(s, after) = Ch.rbrace
        THEN PState("after", after + 1, PyDict(sofar), Tail(st.stack))
        ELSE IF At(s, after) # Ch.comma THEN PError
        ELSE IF At(s, next) # Ch.quote THEN PError
        ELSE PState("key", next, PyNone, <<ObjFrame(sofar, <<>>)>> \o Tail(st.stack))

\* decoder.py JSONArray: what follows an element
JSONArrayNext(s, st) ==
    LET top == Head(st.stack)
        sofar == Append(top.items, st.val)
        after == SkipWs(s, st.i)
    IN  IF At(s, after) = Ch.rbracket
        THEN PState("after", after + 1, PyList(sofar), Tail(st.stack))
        ELSE IF At(s, after) # Ch.comma THEN PError
        ELSE PState("value", SkipWs(s, after + 1), PyNone,
                    <<ArrFrame(sofar)>> \o Tail(st.stack))

DecodeStep(s, st) ==
    IF st.mode = "value" THEN scan_once(s, st)
    ELSE IF st.mode = "key" THEN JSONObjectKey(s, st)
    ELSE IF Head(st.stack).kind = "object" THEN JSONObjectNext(s, st)
    ELSE JSONArrayNext(s, st)

RECURSIVE raw_decode(_, _)
\* JSONDecoder.raw_decode: runs until the outermost value is returned, or an error
raw_decode(s, st) ==
    IF st.mode = "error" \/ (st.mode = "after" /\ st.stack = <<>>) THEN st
    ELSE raw_decode(s, DecodeStep(s, st))

\* json.loads(s): JSONDecoder.decode, or JSONDecodeError
json_loads(s) ==
    LET st == raw_decode(s, PState("value", 1, PyNone, <<>>))
    IN  IF st.mode = "error" THEN PFail
        ELSE IF SkipWs(s, st.i) # Len(s) + 1 THEN PFail
        ELSE POk(st.val, st.i)

(* ------------------------------------------------ the model (an MLP)     *)
Prod(shape) == IF Len(shape) = 1 THEN shape[1] ELSE shape[1] * shape[2]

\* jr.normal / jr.uniform under the fixed key PRNGKey(0): the skeleton's contents
InitData(n) == [k \in 1..n |-> 0]

Array(shape) == [shape |-> shape, data |-> InitData(Prod(shape))]

\* eqx.nn.Linear(in_features, out_features): weight (out, in), bias (out,)
Linear(in, out) == [weight |-> Array(<<out, in>>), bias |-> Array(<<out>>)]

\* eqx.nn.MLP(in_size, out_size, width_size, depth, activation)
MLP(in_size, out_size, width_size, depth, activation) ==
    [activation |-> activation,
     layers |-> IF depth = 0 THEN <<Linear(in_size, out_size)>>
                ELSE <<Linear(in_size, width_size)>>
                     \o [k \in 1..(depth - 1) |-> Linear(width_size, width_size)]
                     \o <<Linear(width_size, out_size)>>]

\* the sizes eqx.nn.MLP builds arrays for: ints that are not negative
MLPAccepts(in_size, width_size, depth) ==
    \A a \in {in_size, width_size, depth} : a.t = "int" /\ a.v >= 0

\* jax.tree_util.tree_leaves(model): weight, bias of each layer, in order
tree_leaves(m) ==
    [k \in 1..(2 * Len(m.layers)) |->
        IF k % 2 = 1 THEN m.layers[(k + 1) \div 2].weight ELSE m.layers[k \div 2].bias]

RECURSIVE Offset(_, _)
\* the number of elements of the leaves before leaf k
Offset(leaves, k) ==
    IF k = 1 THEN 0 ELSE Offset(leaves, k - 1) + Prod(leaves[k - 1].shape)

LeafBytes(m) == Offset(tree_leaves(m), 2 * Len(m.layers) + 1)

Shapes(m) == [k \in 1..(2 * Len(m.layers)) |-> tree_leaves(m)[k].shape]

\* the model with the same structure whose leaves hold flat[1..LeafBytes(m)]
tree_unflatten(m, flat) ==
    LET leaves == tree_leaves(m)
        fill(k) == [leaves[k] EXCEPT
                      !.data = SubSeq(flat, Offset(leaves, k) + 1, Offset(leaves, k + 1))]
    IN  [m EXCEPT !.layers = [j \in 1..Len(m.layers) |->
                                 [weight |-> fill(2 * j - 1), bias |-> fill(2 * j)]]]

\* eqx.tree_serialise_leaves(f, model): the bytes written to f
tree_serialise_leaves(m) ==
    Concat([k \in 1..(2 * Len(m.layers)) |-> tree_leaves(m)[k].data])

\* eqx.tree_deserialise_leaves(f, like), f at offset pos of the bytes bs
tree_deserialise_leaves(bs, pos, like) ==
    LET need == LeafBytes(like)
        have == Len(bs) - pos
    IN  IF have < need THEN [ok |-> FALSE, err |-> "TruncatedStream", pos |-> Len(bs)]
        ELSE IF have > need
             THEN [ok |-> FALSE, err |-> "ShapeMismatch", pos |-> pos + need]
        ELSE [ok |-> TRUE, pos |-> pos + need,
              model |-> tree_unflatten(like, SubSeq(bs, pos + 1, pos + need))]

(* ----------------------------------------------------------------- make  *)
RECURSIVE Lookup(_, _)
\* the keyword argument named key among **params, if it is passed
Lookup(pairs, key) ==
    IF pairs = <<>> THEN [found |-> FALSE]
    ELSE IF Head(pairs)[1].t = "str" /\ Head(pairs)[1].v = key
         THEN [found |-> TRUE, val |-> Head(pairs)[2]]
    ELSE Lookup(Tail(pairs), key)

RECURSIVE FloatNonZero(_)
FloatNonZero(lexeme) ==
    IF lexeme = <<>> \/ Head(lexeme) = Ch.e \/ Head(lexeme) = Ch.upE THEN FALSE
    ELSE IF Head(lexeme) > Ch.zero THEN TRUE
    ELSE FloatNonZero(Tail(lexeme))

\* bool(o), as "if use_tanh:" evaluates it
Truthy(o) ==
    CASE o.t = "none" -> FALSE
      [] o.t = "bool" -> o.v
      [] o.t = "int" -> o.v # 0
      [] o.t = "float" -> FloatNonZero(o.v)
      [] o.t \in {"str", "list", "dict"} -> o.v # <<>>
      [] OTHER -> TRUE

MakeKeywords == {S_size, S_width, S_depth, S_use_tanh}

\* make declared with **kwargs and defaults: keywords it does not know are dropped
makeAnyKeywords(params) ==
    IF params.t # "dict" THEN [ok |-> FALSE]
    ELSE LET kw == params.v
             Arg(name) == IF Lookup(kw, name).found /\ Lookup(kw, name).val.t = "int"
                          THEN Lookup(kw, name).val.v ELSE 1
             use_tanh == Lookup(kw, S_use_tanh)
         IN  [ok |-> TRUE,
              model |-> MLP(Arg(S_size), 1, Arg(S_width), Arg(S_depth),
                            IF use_tanh.found /\ Truthy(use_tanh.val) THEN "tanh" ELSE "relu")]

\* make(key=jr.PRNGKey(0), **params): the model, or the exception of the call
make(params) ==
    IF params.t # "dict" THEN [ok |-> FALSE]
    ELSE LET kw == params.v
             size == Lookup(kw, S_size)
             width == Lookup(kw, S_width)
             depth == Lookup(kw, S_depth)
             use_tanh == Lookup(kw, S_use_tanh)
             activation == IF use_tanh.found /\ Truthy(use_tanh.val) THEN "tanh" ELSE "relu"
         IN  IF \E k \in 1..Len(kw) : kw[k][1].t # "str" \/ kw[k][1].v \notin MakeKeywords
             THEN [ok |-> FALSE]
             ELSE IF ~(size.found /\ width.found /\ depth.found) THEN [ok |-> FALSE]
             ELSE IF ~MLPAccepts(size.val, width.val, depth.val) THEN [ok |-> FALSE]
             ELSE [ok |-> TRUE,
                   model |-> MLP(size.val.v, 1, width.val.v, depth.val.v, activation)]

(* ------------------------------------------------------------ the state  *)
VARIABLES
    params,     \* save's argument: the hyperparameters
    model,      \* save's argument: the trained model
    file,       \* the bytes of the file "multipart_serialised.eqx"
    spc,        \* where save is: call, opened, dumped, header, done, failed
    param_str,  \* save's local
    save_err,   \* the failure save raised, or "none"
    lpc,        \* where load is: idle, opened, line, text, header, made, done, failed
    pos,        \* load's f: the number of bytes read from it
    line,       \* the bytes f.readline() returned
    text,       \* the str line.decode() returned
    lparams,    \* load's local params
    skeleton,   \* load's local model
    result,     \* what load returned (None until it returns)
    load_err,   \* the failure load raised, or "none"
    steps,      \* the steps load has performed, in order
    wstart,     \* the offset of f when the weights were read (-1 before)
    corrupted   \* whether the file was changed after save closed it

vars == <<params, model, file, spc, param_str, save_err, lpc, pos, line, text, lparams, skeleton,
          result, load_err, steps, wstart, corrupted>>

saveVars == <<params, model, file, spc, param_str, save_err>>
loadVars == <<lpc, pos, line, text, lparams, skeleton, result, load_err, steps, wstart>>

None == [t |-> "none"]

(* ----------------------------------------------------- the inputs of save *)
Str(sq) == PyStr(sq)

\* hyperparameters = {"size": s, "width": w, "depth": d, "use_tanh": u}
Hyper(s, w, d, u) ==
    << <<Str(S_size), PyInt(s)>>, <<Str(S_width), PyInt(w)>>, <<Str(S_depth), PyInt(d)>> >>
    \o (IF u = "absent" THEN <<>> ELSE << <<Str(S_use_tanh), PyBool(u = "true")>> >>)

\* the cycles of bytes training leaves in the leaves
TrainedBytes == {<<NL, 0>>, <<65, NL, 255>>, <<1>>}

\* the model after training: same structure, other contents
Train(m, cyc) ==
    tree_unflatten(m, [k \in 1..LeafBytes(m) |-> cyc[((k - 1) % Len(cyc)) + 1]])

\* strings with a newline, a quote, a backslash, non-ASCII characters
NoteStrs == {<<NL>>, <<97, NL, 34, 92>>, <<233, 128512>>}

\* what is added to or dropped from the hyperparameters
Variants(h) ==
    {PyDict(h), PyDict(SubSeq(h, 1, 2) \o SubSeq(h, 4, Len(h)))}
    \cup {PyDict(h \o << <<Str(S_note), PyStr(n)>> >>) : n \in NoteStrs}
    \cup {PyDict(h \o << <<Str(<<107, NL>>), PyInt(1)>> >>),
          PyDict(h \o << <<Str(S_note), PyObject>> >>),
          PyDict(<< <<Str(S_note), PyObject>> >> \o h)}

Activation(u) == IF u = "true" THEN "tanh" ELSE "relu"

InitCommon ==
    /\ file = <<>>
    /\ spc = "call"
    /\ param_str = <<>>
    /\ save_err = "none"
    /\ lpc = "idle"
    /\ pos = 0
    /\ line = <<>>
    /\ text = <<>>
    /\ lparams = None
    /\ skeleton = None
    /\ result = None
    /\ load_err = "none"
    /\ steps = <<>>
    /\ wstart = -1
    /\ corrupted = FALSE

\* save(filename, params, model) with the model built by make from params and
\* trained, or from other hyperparameters
Init ==
    /\ \E s \in 1..MaxSize, w \in 1..MaxWidth, d \in 0..MaxDepth, u \in {"absent", "true"},
          ms \in 1..MaxSize, mw \in 1..MaxWidth, md \in 0..MaxDepth, cyc \in TrainedBytes :
          /\ params \in Variants(Hyper(s, w, d, u))
          /\ (params # PyDict(Hyper(s, w, d, u)) => <<ms, mw, md>> = <<s, w, d>>)
          /\ model = Train(MLP(ms, 1, mw, md, Activation(u)), cyc)
    /\ InitCommon

(* ------------------------------------------------------------------ save *)
\* with open(filename, "wb") as f:
SaveOpen ==
    /\ spc = "call"
    /\ file' = <<>>
    /\ spc' = "opened"
    /\ UNCHANGED <<params, model, param_str, save_err, corrupted>>
    /\ UNCHANGED loadVars

\* json.dump(params, f): what is encoded before the TypeError is already written
SaveDumpsStreaming ==
    /\ spc = "opened"
    /\ LET r == json_dumps(params)
       IN  IF r.ok
           THEN /\ param_str' = r.s
                /\ spc' = "dumped"
                /\ save_err' = save_err
                /\ file' = file
           ELSE /\ param_str' = param_str
                /\ spc' = "failed"
                /\ save_err' = "UnencodableHyperparameters"
                /\ file' = file \o <<Ch.lbrace>>
    /\ UNCHANGED <<params, model, corrupted>>
    /\ UNCHANGED loadVars

\* param_str = json.dumps(params)
SaveDumps ==
    /\ spc = "opened"
    /\ LET r == json_dumps(params)
       IN  IF r.ok
           THEN /\ param_str' = r.s
                /\ spc' = "dumped"
                /\ save_err' = save_err
           ELSE /\ param_str' = param_str
                /\ spc' = "failed"
                /\ save_err' = "UnencodableHyperparameters"
    /\ UNCHANGED <<params, model, file, corrupted>>
    /\ UNCHANGED loadVars

\* f.write(param_str.encode()): the newline is forgotten
SaveWriteHeaderNoNewline ==
    /\ spc = "dumped"
    /\ file' = file \o str_encode(param_str).s
    /\ spc' = "header"
    /\ UNCHANGED <<params, model, param_str, save_err, corrupted>>
    /\ UNCHANGED loadVars

\* f.write((param_str + "\n\n").encode()): a blank line after the header
SaveWriteHeaderBlankLine ==
    /\ spc = "dumped"
    /\ file' = file \o str_encode(param_str \o <<NL, NL>>).s
    /\ spc' = "header"
    /\ UNCHANGED <<params, model, param_str, save_err, corrupted>>
    /\ UNCHANGED loadVars

\* f.write((param_str + "\n").encode())
SaveWriteHeader ==
    /\ spc = "dumped"
    /\ LET b == str_encode(param_str \o <<NL>>)
       IN  IF b.ok
           THEN /\ file' = file \o b.s
                /\ spc' = "header"
                /\ save_err' = save_err
           ELSE /\ file' = file
                /\ spc' = "failed"
                /\ save_err' = "UnicodeEncodeError"
    /\ UNCHANGED <<params, model, param_str, corrupted>>
    /\ UNCHANGED loadVars

\* eqx.tree_serialise_leaves(f, model), and the end of the with block
SaveLeaves ==
    /\ spc = "header"
    /\ file' = file \o tree_serialise_leaves(model)
    /\ spc' = "done"
    /\ UNCHANGED <<params, model, param_str, save_err, corrupted>>
    /\ UNCHANGED loadVars

(* ------------------------------------------------------------------ load *)
\* the index of the first newline byte after offset p, or Len(bs) if there is none
\* LineEnd that stops before the newline instead of after it
LineEndBeforeNewline(bs, p) ==
    LET nls == {k \in (p + 1)..Len(bs) : bs[k] = NL}
    IN  IF nls = {} THEN Len(bs) ELSE (CHOOSE k \in nls : \A j \in nls : k <= j) - 1

\* LineEnd that runs to the last newline of the file
LineEndLast(bs, p) ==
    LET nls == {k \in (p + 1)..Len(bs) : bs[k] = NL}
    IN  IF nls = {} THEN Len(bs) ELSE CHOOSE k \in nls : \A j \in nls : k >= j

LineEnd(bs, p) ==
    LET nls == {k \in (p + 1)..Len(bs) : bs[k] = NL}
    IN  IF nls = {} THEN Len(bs) ELSE CHOOSE k \in nls : \A j \in nls : k <= j

\* f.readline(): the bytes up to and including the next newline, or up to EOF
readline(bs, p) == SubSeq(bs, p + 1, LineEnd(bs, p))

\* with open(filename, "rb") as f:
LoadOpen ==
    /\ lpc = "idle"
    /\ spc \in {"done", "failed"}
    /\ lpc' = "opened"
    /\ pos' = 0
    /\ UNCHANGED <<line, text, lparams, skeleton, result, load_err, steps, wstart, corrupted>>
    /\ UNCHANGED saveVars

\* f.readline()
LoadReadline ==
    /\ lpc = "opened"
    /\ line' = readline(file, pos)
    /\ pos' = LineEnd(file, pos)
    /\ lpc' = "line"
    /\ steps' = Append(steps, "readline")
    /\ UNCHANGED <<text, lparams, skeleton, result, load_err, wstart, corrupted>>
    /\ UNCHANGED saveVars

\* .decode(); a header that is not UTF-8 is a malformed header
LoadDecode ==
    /\ lpc = "line"
    /\ IF bytes_decode(line).ok
       THEN /\ text' = bytes_decode(line).s
            /\ lpc' = "text"
            /\ load_err' = load_err
       ELSE /\ text' = text
            /\ lpc' = "failed"
            /\ load_err' = "MalformedHeader"
    /\ UNCHANGED <<pos, line, lparams, skeleton, result, steps, wstart, corrupted>>
    /\ UNCHANGED saveVars

\* the JSONDecodeError is caught and params is left empty
LoadParseDefault ==
    /\ lpc = "text"
    /\ \E r \in {json_loads(text)} :
          lparams' = IF r.ok THEN r.v ELSE PyDict(<<>>)
    /\ lpc' = "header"
    /\ steps' = Append(steps, "parse")
    /\ UNCHANGED <<pos, line, text, skeleton, result, load_err, wstart, corrupted>>
    /\ UNCHANGED saveVars

\* params = json.loads(...)
LoadParse ==
    /\ lpc = "text"
    /\ \E r \in {json_loads(text)} :
          IF r.ok
          THEN /\ lparams' = r.v
               /\ lpc' = "header"
               /\ load_err' = load_err
          ELSE /\ lparams' = lparams
               /\ lpc' = "failed"
               /\ load_err' = "MalformedHeader"
    /\ steps' = Append(steps, "parse")
    /\ UNCHANGED <<pos, line, text, skeleton, result, wstart, corrupted>>
    /\ UNCHANGED saveVars

\* model = make(key=jr.PRNGKey(0), **params)
LoadMake ==
    /\ lpc = "header"
    /\ LET r == make(lparams)
       IN  IF r.ok
           THEN /\ skeleton' = r.model
                /\ lpc' = "made"
                /\ load_err' = load_err
           ELSE /\ skeleton' = skeleton
                /\ lpc' = "failed"
                /\ load_err' = "ConstructorError"
    /\ steps' = Append(steps, "make")
    /\ UNCHANGED <<pos, line, text, lparams, result, wstart, corrupted>>
    /\ UNCHANGED saveVars

\* the failure of tree_deserialise_leaves is caught and the skeleton returned
LoadDeserialiseBestEffort ==
    /\ lpc = "made"
    /\ LET r == tree_deserialise_leaves(file, pos, skeleton)
       IN  /\ pos' = r.pos
           /\ result' = IF r.ok THEN r.model ELSE skeleton
    /\ lpc' = "done"
    /\ wstart' = pos
    /\ steps' = Append(steps, "read_weights")
    /\ UNCHANGED <<line, text, lparams, skeleton, load_err, corrupted>>
    /\ UNCHANGED saveVars

\* return eqx.tree_deserialise_leaves(f, model)
LoadDeserialise ==
    /\ lpc = "made"
    /\ LET r == tree_deserialise_leaves(file, pos, skeleton)
       IN  /\ pos' = r.pos
           /\ IF r.ok
              THEN /\ result' = r.model
                   /\ lpc' = "done"
                   /\ load_err' = load_err
              ELSE /\ result' = result
                   /\ lpc' = "failed"
                   /\ load_err' = r.err
    /\ wstart' = pos
    /\ steps' = Append(steps, "read_weights")
    /\ UNCHANGED <<line, text, lparams, skeleton, corrupted>>
    /\ UNCHANGED saveVars

Next ==
    \/ SaveOpen
    \/ SaveDumps
    \/ SaveWriteHeader
    \/ SaveLeaves
    \/ LoadOpen
    \/ LoadReadline
    \/ LoadDecode
    \/ LoadParse
    \/ LoadMake
    \/ LoadDeserialise

Spec == Init /\ [][Next]_vars

(* ---------------------------------------- a sink that fails, a file that *)
(* ---------------------------------------- is changed before it is read   *)
\* f.write raises OSError after part of the header reached the file
SaveWriteHeaderFail ==
    /\ spc = "dumped"
    /\ str_encode(param_str \o <<NL>>).ok
    /\ \E k \in 0..Len(param_str) :
          file' = file \o SubSeq(str_encode(param_str \o <<NL>>).s, 1, k)
    /\ spc' = "failed"
    /\ save_err' = "SinkError"
    /\ UNCHANGED <<params, model, param_str, corrupted>>
    /\ UNCHANGED loadVars

\* tree_serialise_leaves raises OSError after part of the leaves reached the file
SaveLeavesFail ==
    /\ spc = "header"
    /\ \E k \in 0..(LeafBytes(model) - 1) :
          file' = file \o SubSeq(tree_serialise_leaves(model), 1, k)
    /\ spc' = "failed"
    /\ save_err' = "SinkError"
    /\ UNCHANGED <<params, model, param_str, corrupted>>
    /\ UNCHANGED loadVars

\* a quote, a newline, a digit, a brace, a byte that is not UTF-8
CorruptBytes == {34, NL, 50, 125, 255}

\* one byte of the saved file is overwritten
Corrupt ==
    /\ spc = "done"
    /\ lpc = "idle"
    /\ ~corrupted
    /\ \E i \in 1..Len(file), b \in CorruptBytes :
          /\ file[i] # b
          /\ file' = [file EXCEPT ![i] = b]
    /\ corrupted' = TRUE
    /\ UNCHANGED <<params, model, spc, param_str, save_err>>
    /\ UNCHANGED loadVars

InitIO ==
    /\ \E s \in 1..MaxSize, w \in 1..MaxWidth, d \in 0..MaxDepth :
          /\ params \in {PyDict(Hyper(s, w, d, "true")),
                         PyDict(Hyper(s, w, d, "true") \o << <<Str(S_note), PyStr(<<NL>>)>> >>)}
          /\ model = Train(MLP(s, 1, w, d, "tanh"), <<65, NL, 255>>)
    /\ InitCommon

NextIO ==
    \/ Next
    \/ SaveWriteHeaderFail
    \/ SaveLeavesFail
    \/ Corrupt

SpecIO == InitIO /\ [][NextIO]_vars

(* ------------------------------------------------------------ properties *)
RECURSIVE PyEq(_, _)
\* a == b for the values json produces (dicts compare without regard to order)
PyEq(a, b) ==
    IF a.t # b.t THEN FALSE
    ELSE IF a.t \in {"none", "object"} THEN a.t = "none"
    ELSE IF a.t = "list"
         THEN Len(a.v) = Len(b.v) /\ \A k \in 1..Len(a.v) : PyEq(a.v[k], b.v[k])
    ELSE IF a.t = "dict"
         THEN /\ Len(a.v) = Len(b.v)
              /\ \A k \in 1..Len(a.v) : \E j \in 1..Len(b.v) :
                    PyEq(a.v[k][1], b.v[j][1]) /\ PyEq(a.v[k][2], b.v[j][2])
    ELSE a.v = b.v

\* the index of the first newline byte of the file, 0 if it has none
FirstNewline ==
    IF \E k \in 1..Len(file) : file[k] = NL
    THEN CHOOSE k \in 1..Len(file) : file[k] = NL /\ \A j \in 1..(k - 1) : file[j] # NL
    ELSE 0

\* the bytes of the file after its first newline
AfterNewline == Len(file) - FirstNewline

Has(sq, e) == \E k \in 1..Len(sq) : sq[k] = e

IsPrefix(a, b) == Len(a) <= Len(b) /\ SubSeq(b, 1, Len(a)) = a

\* the model passed to save has the structure make gives for the hyperparameters
BuiltFrom(m, h) ==
    \E r \in {make(h)} :
        r.ok /\ Shapes(r.model) = Shapes(m) /\ r.model.activation = m.activation

LoadEnded == lpc \in {"done", "failed"}

\* C1: round trip. When save has written the file for hyperparameters H and a
\* model M of the structure make(H), load returns a model equal to M, leaf for
\* leaf, and the hyperparameters it parsed from the header equal H by value.
C1_RoundTrip ==
    (spc = "done" /\ LoadEnded /\ BuiltFrom(model, params))
        => (lpc = "done" /\ result = model /\ PyEq(lparams, params))

\* a round trip whose weights begin with a newline byte
C1_Witness ==
    /\ spc = "done" /\ lpc = "done" /\ BuiltFrom(model, params)
    /\ Len(model.layers) = 2
    /\ model.layers[1].weight.data[1] = NL

\* C2: layout. The file save wrote, split at its first newline byte, has on the
\* left a JSON document equal to the hyperparameters and on the right the data
\* of the leaves, in order, and nothing else.
C2_Layout ==
    spc = "done" =>
        /\ FirstNewline > 0
        /\ \E t \in {bytes_decode(SubSeq(file, 1, FirstNewline - 1))} :
              t.ok /\ \E d \in {json_loads(t.s)} : d.ok /\ PyEq(d.v, params)
        /\ SubSeq(file, FirstNewline + 1, Len(file))
              = Concat([k \in 1..(2 * Len(model.layers)) |-> tree_leaves(model)[k].data])

\* a file whose hyperparameters have a string value with a newline in it
C2_Witness ==
    /\ spc = "done"
    /\ \E k \in 1..Len(params.v) : params.v[k][2].t = "str" /\ Has(params.v[k][2].v, NL)

\* the first line of the file is UTF-8 text that parses as JSON
FirstLineIsJSON ==
    \E t \in {bytes_decode(SubSeq(file, 1, IF FirstNewline = 0 THEN Len(file) ELSE FirstNewline))} :
        t.ok /\ json_loads(t.s).ok

WeightsRead == LoadEnded /\ wstart >= 0

RECURSIVE Representable(_)
\* json has an encoding for the object
Representable(o) ==
    IF o.t = "object" THEN FALSE
    ELSE IF o.t = "list" THEN \A k \in 1..Len(o.v) : Representable(o.v[k])
    ELSE IF o.t = "dict"
         THEN \A k \in 1..Len(o.v) :
                 o.v[k][1].t \notin {"object", "list", "dict"} /\ Representable(o.v[k][2])
    ELSE TRUE

\* C7: hyperparameters json cannot encode make save fail with
\* UnencodableHyperparameters, with no byte of the header or of the weights
\* in the file.
C7_Unencodable ==
    (~Representable(params) /\ spc \notin {"call", "opened"})
        => (spc = "failed" /\ save_err = "UnencodableHyperparameters" /\ file = <<>>)

\* the value json cannot encode comes after values it can
C7_Witness ==
    /\ spc = "failed" /\ save_err = "UnencodableHyperparameters"
    /\ params.v[Len(params.v)][2].t = "object"

\* a required keyword of make is missing, or a keyword make does not have is passed
WrongKeywords(h) ==
    /\ h.t = "dict"
    /\ \/ \E k \in 1..Len(h.v) : h.v[k][1].v \notin {S_size, S_width, S_depth, S_use_tanh}
       \/ \E name \in {S_size, S_width, S_depth} : \A k \in 1..Len(h.v) : h.v[k][1].v # name

\* C8: when make raises for the parsed hyperparameters, load fails with that
\* failure, returns nothing, and has read nothing past the header line.
C8_ConstructorRaises ==
    (Has(steps, "make") /\ WrongKeywords(lparams))
        => (lpc = "failed" /\ load_err = "ConstructorError" /\ result = None
            /\ pos = FirstNewline /\ wstart = -1 /\ ~Has(steps, "read_weights"))

\* make was called with a keyword it does not have
C8_Witness ==
    /\ lpc = "failed" /\ load_err = "ConstructorError"
    /\ \E k \in 1..Len(lparams.v) : lparams.v[k][1].v = S_note
    /\ FirstNewline < Len(file)

\* C9: load reads the line, parses it, calls make once, then reads the weights,
\* in that order; the line is the bytes up to and including the first newline,
\* and the weights are read from the byte after it.
C9_Order ==
    /\ IsPrefix(steps, <<"readline", "parse", "make", "read_weights">>)
    /\ (lpc \notin {"idle", "opened"} =>
            line = SubSeq(file, 1, IF FirstNewline = 0 THEN Len(file) ELSE FirstNewline))
    /\ (lpc \in {"line", "text", "header", "made"} => pos = Len(line))
    /\ (wstart >= 0 => (FirstNewline > 0 /\ wstart = FirstNewline))
    /\ (lpc = "done" =>
            tree_serialise_leaves(result) = SubSeq(file, FirstNewline + 1, Len(file)))

\* the weights read hold newline bytes
C9_Witness ==
    /\ lpc = "done" /\ wstart = FirstNewline
    /\ Has(SubSeq(file, FirstNewline + 1, Len(file)), NL)

\* the file save writes when nothing fails
WholeFile ==
    str_encode(json_dumps(params).s \o <<NL>>).s \o tree_serialise_leaves(model)

\* C10: load never returns a model from a strict prefix of the file save writes
\* for hyperparameters and a model of their structure.
C10_Prefix ==
    (/\ json_dumps(params).ok
     /\ BuiltFrom(model, params)
     /\ spc = "failed"
     /\ Len(file) < Len(WholeFile)
     /\ IsPrefix(file, WholeFile)
     /\ LoadEnded)
        => (lpc = "failed" /\ result = None)

\* the header without its newline: it parses, make accepts it, no weights follow
C10_Witness ==
    /\ spc = "failed" /\ save_err = "SinkError"
    /\ Len(file) = Len(param_str) /\ Len(file) > 0
    /\ lpc = "failed" /\ load_err = "TruncatedStream"

====
